---- MODULE Spec2Model ----
(***************************************************************************)
(* RepoVerse front end: the ReportGenerator form with its progress poll,    *)
(* the ChatInterface widget that talks to a backend chat session, and the  *)
(* earlier ChatInterface that simulates the AI reply with a timeout.       *)
(*                                                                         *)
(* The backend is an opaque HTTP service.  A report request is "sent",     *)
(* then answered by the backend (which fixes what the response carries),   *)
(* then delivered to the awaiting continuation; responses of different     *)
(* requests are delivered in any order.  The backend runs one report job,  *)
(* restarted by POST /generate_report, and answers every /progress poll    *)
(* from that job.  The chat backend keeps no state here, so a chat         *)
(* response is chosen when it is delivered.                                *)
(*                                                                         *)
(* A React state update, the re-render and the effects it triggers are one *)
(* atomic step.  A form control that the component disables while busy     *)
(* (isGenerating, isLoading) takes no event; whether the input is blank is *)
(* left to the handlers' own guards.  ChatInterface gets pdfUrl and topic  *)
(* as props from a parent that is not part of the sources: the props       *)
(* change as ReportGenerator's two updates of them do.                     *)
(*                                                                         *)
(* Strings are sequences of one-character strings.                         *)
(***************************************************************************)
EXTENDS Integers, Sequences, FiniteSets, TLC

\* ------------------------------------------------------------------ bounds
MaxRuns == 2
MaxReqs == 2
NumPdfs == 1
NumExamples == 1
MaxReports == 2
MaxChatReqs == 2
MaxMsgs == 3
MaxTimers == 2
MaxSimMsgs == 7
NumQuestions == 1

\* ------------------------------------------------------- program constants
NumStages == 4

ExampleTopics == << <<"A", "I">>, <<"R", "E">>, <<"C", "C">>, <<"B", "F">> >>

StartError == "Error starting report."
PollError == "Error fetching progress or report data."

\* ------------------------------------------------------------------ strings
Whitespace == {" "}

RECURSIVE TrimLeft(_)
TrimLeft(s) ==
    IF s # <<>> /\ Head(s) \in Whitespace THEN TrimLeft(Tail(s)) ELSE s

RECURSIVE TrimRight(_)
TrimRight(s) ==
    IF s # <<>> /\ s[Len(s)] \in Whitespace
    THEN TrimRight(SubSeq(s, 1, Len(s) - 1))
    ELSE s

Trim(s) == TrimRight(TrimLeft(s))

\* what the user can type into the topic input
TypedTopics == {<<>>, <<" ">>, <<"a">>}

VARIABLES
    \* ReportGenerator and the state its parent holds for it
    localTopic, error, topic, pdfUrl, isGenerating, progress,
    interval,   \* the live setInterval handle of the polling effect
    reqs,       \* in-flight fetches of ReportGenerator and their continuations
    run,        \* number of generation runs started (history)
    pollEnded,  \* a tick of some interval saw is_complete or failed since the last submit (history)
    rgEv,       \* the last ReportGenerator event (history)
    \* backend report job
    srvJob, srvStage, srvComplete,
    \* ChatInterface and the props its parent passes
    propPdfUrl, propTopic,
    messages, inputMessage, isLoading, sessionId,
    chatReqs,   \* in-flight /chat/init and /chat/message fetches, oldest first
    timers,     \* pending 3-second auto-dismiss timeouts, oldest first
    epoch,      \* number of reports the chat was reset for (history)
    ciEv,       \* the last ChatInterface event (history)
    initDone,   \* the session ids whose /chat/init has succeeded (history)
    \* the simulated ChatInterface and the prop its parent passes
    reportContent,
    simMessages, simInputMessage, simIsLoading,
    simTimeouts \* pending 1.5-second setTimeout callbacks

rgVars == <<localTopic, error, topic, pdfUrl, isGenerating, progress,
            interval, reqs, run, pollEnded, rgEv>>
srvVars == <<srvJob, srvStage, srvComplete>>

ciVars == <<propPdfUrl, propTopic, messages, inputMessage, isLoading, sessionId,
            chatReqs, timers, epoch, ciEv, initDone>>

simVars == <<reportContent, simMessages, simInputMessage, simIsLoading, simTimeouts>>

vars == <<rgVars, srvVars, ciVars, simVars>>

\* ---------------------------------------------------------- ReportGenerator
NullUrl == <<>>

DataUrl(b) == <<"data:application/pdf;base64,", b>>

ProgressOf(n) ==
    [topicAnalysis  |-> n >= 1,
     dataGathering  |-> n >= 2,
     draftingReport |-> n >= 3,
     finalizing     |-> n >= 4]

ResetProgress ==
    [topicAnalysis  |-> FALSE,
     dataGathering  |-> FALSE,
     draftingReport |-> FALSE,
     finalizing     |-> FALSE]

Slots == 1..MaxReqs

\* the in-flight fetches, oldest first
Remove(rq, i) == SubSeq(rq, 1, i - 1) \o SubSeq(rq, i + 1, Len(rq))

Idle == [kind |-> "idle", ph |-> "none", topic |-> <<>>, own |-> FALSE,
         run |-> 0, ok |-> FALSE, stage |-> 0, complete |-> FALSE, pdf |-> 0]

NoInterval == [on |-> FALSE, topic |-> <<>>]

CanFetch(rq) == Len(rq) < MaxReqs

Fetch(kind, t, r) ==
    [Idle EXCEPT !.kind = kind, !.ph = "sent", !.topic = t, !.own = TRUE, !.run = r]

\* The polling effect, deps [isGenerating, localTopic]: when a dependency
\* changed its cleanup clears the live interval, then a new one is set
\* if (isGenerating && localTopic).
DepsChanged(oldGen, oldTopic, newGen, newTopic) ==
    oldGen # newGen \/ oldTopic # newTopic

PollGuard(gen, t) == gen /\ t # <<>>

EffectInterval(oldGen, oldTopic, newGen, newTopic, iv) ==
    IF DepsChanged(oldGen, oldTopic, newGen, newTopic)
    THEN IF PollGuard(newGen, newTopic)
         THEN [on |-> TRUE, topic |-> newTopic]
         ELSE NoInterval
    ELSE iv

\* a callback still in flight keeps the handle of the interval that fired it
EffectReqs(oldGen, oldTopic, newGen, newTopic, rq) ==
    IF DepsChanged(oldGen, oldTopic, newGen, newTopic)
    THEN [s \in 1..Len(rq) |-> [rq[s] EXCEPT !.own = FALSE]]
    ELSE rq

\* clearInterval(interval) inside a tick callback
ClearInterval(r, iv) == IF r.own THEN NoInterval ELSE iv

\* onChange of the topic input (disabled while generating)
SetLocalTopic(v) ==
    /\ ~isGenerating
    /\ localTopic' = v
    /\ interval' = EffectInterval(isGenerating, localTopic, isGenerating, v, interval)
    /\ reqs' = EffectReqs(isGenerating, localTopic, isGenerating, v, reqs)
    /\ rgEv' = "other"
    /\ UNCHANGED <<error, topic, pdfUrl, isGenerating, progress, run, pollEnded>>
    /\ UNCHANGED <<srvVars, ciVars, simVars>>

\* onClick of an example tag (never disabled)
ClickExample(i) ==
    /\ localTopic' = ExampleTopics[i]
    /\ interval' = EffectInterval(isGenerating, localTopic, isGenerating,
                                  ExampleTopics[i], interval)
    /\ reqs' = EffectReqs(isGenerating, localTopic, isGenerating,
                          ExampleTopics[i], reqs)
    /\ rgEv' = "other"
    /\ UNCHANGED <<error, topic, pdfUrl, isGenerating, progress, run, pollEnded>>
    /\ UNCHANGED <<srvVars, ciVars, simVars>>

\* mutant: the guard forgets trim()
SubmitGuardNoTrim(t) == t # <<>>

\* the guard of handleSubmit
SubmitGuard(t) == Trim(t) # <<>>

\* onSubmit of the form (input and button are disabled while generating)
HandleSubmit ==
    /\ ~isGenerating
    /\ rgEv' = "submit"
    /\ IF ~SubmitGuard(localTopic)
       THEN UNCHANGED <<localTopic, error, topic, pdfUrl, isGenerating, progress,
                        interval, reqs, run, pollEnded>>
       ELSE /\ run < MaxRuns
            /\ CanFetch(reqs)
            /\ isGenerating' = TRUE
            /\ error' = ""
            /\ topic' = localTopic
            /\ pdfUrl' = NullUrl
            /\ progress' = ResetProgress
            /\ run' = run + 1
            /\ pollEnded' = FALSE
            /\ interval' = EffectInterval(isGenerating, localTopic, TRUE, localTopic, interval)
            /\ LET rq == EffectReqs(isGenerating, localTopic, TRUE, localTopic, reqs)
               IN  reqs' = Append(rq, Fetch("generate", localTopic, run + 1))
            /\ UNCHANGED localTopic
    /\ UNCHANGED <<srvVars, ciVars, simVars>>

\* the interval callback fires: GET /progress/:topic
Tick ==
    /\ interval.on
    /\ CanFetch(reqs)
    /\ reqs' = Append(reqs, Fetch("progress", interval.topic, run))
    /\ rgEv' = "other"
    /\ UNCHANGED <<localTopic, error, topic, pdfUrl, isGenerating, progress,
                   interval, run, pollEnded>>
    /\ UNCHANGED <<srvVars, ciVars, simVars>>

\* mutant: the catch forgets setIsGenerating(false)
PollCatchKeepsGenerating(s) ==
    /\ error' = PollError
    /\ isGenerating' = isGenerating
    /\ interval' = ClearInterval(reqs[s], interval)
    /\ reqs' = Remove(reqs, s)
    /\ pollEnded' = TRUE

\* catch of the interval callback
PollCatch(s) ==
    /\ error' = PollError
    /\ isGenerating' = FALSE
    /\ interval' = ClearInterval(reqs[s],
                       EffectInterval(isGenerating, localTopic, FALSE, localTopic, interval))
    /\ reqs' = Remove(EffectReqs(isGenerating, localTopic, FALSE, localTopic, reqs), s)
    /\ pollEnded' = TRUE

\* the /progress response reaches the callback
DeliverProgress(s) ==
    /\ s <= Len(reqs)
    /\ reqs[s].kind = "progress" /\ reqs[s].ph = "resp"
    /\ rgEv' = "other"
    /\ IF ~reqs[s].ok
       THEN /\ PollCatch(s)
            /\ UNCHANGED <<progress, pdfUrl>>
       ELSE /\ progress' = ProgressOf(reqs[s].stage)
            /\ IF reqs[s].complete
               THEN /\ interval' = ClearInterval(reqs[s], interval)
                    /\ reqs' = [reqs EXCEPT ![s] =
                                   [Idle EXCEPT !.kind = "report", !.ph = "sent",
                                                !.topic = reqs[s].topic,
                                                !.own = reqs[s].own,
                                                !.run = reqs[s].run]]
                    /\ pollEnded' = TRUE
               ELSE /\ reqs' = Remove(reqs, s)
                    /\ UNCHANGED <<interval, pollEnded>>
            /\ UNCHANGED <<error, isGenerating, pdfUrl>>
    /\ UNCHANGED <<localTopic, topic, run>>
    /\ UNCHANGED <<srvVars, ciVars, simVars>>

\* the /report response reaches the callback
DeliverReport(s) ==
    /\ s <= Len(reqs)
    /\ reqs[s].kind = "report" /\ reqs[s].ph = "resp"
    /\ rgEv' = "other"
    /\ IF reqs[s].ok /\ reqs[s].pdf # 0
       THEN /\ pdfUrl' = DataUrl(reqs[s].pdf)
            /\ isGenerating' = FALSE
            /\ interval' = EffectInterval(isGenerating, localTopic, FALSE, localTopic, interval)
            /\ reqs' = Remove(EffectReqs(isGenerating, localTopic, FALSE, localTopic, reqs), s)
            /\ UNCHANGED <<error, pollEnded>>
       ELSE /\ PollCatch(s)
            /\ UNCHANGED pdfUrl
    /\ UNCHANGED <<localTopic, topic, progress, run>>
    /\ UNCHANGED <<srvVars, ciVars, simVars>>

\* the /generate_report response reaches handleSubmit
DeliverGenerate(s) ==
    /\ s <= Len(reqs)
    /\ reqs[s].kind = "generate" /\ reqs[s].ph = "resp"
    /\ rgEv' = "other"
    /\ IF reqs[s].ok
       THEN /\ reqs' = Remove(reqs, s)
            /\ UNCHANGED <<error, isGenerating, interval>>
       ELSE /\ error' = StartError
            /\ isGenerating' = FALSE
            /\ interval' = EffectInterval(isGenerating, localTopic, FALSE, localTopic, interval)
            /\ reqs' = Remove(EffectReqs(isGenerating, localTopic, FALSE, localTopic, reqs), s)
    /\ UNCHANGED <<localTopic, topic, pdfUrl, progress, run, pollEnded>>
    /\ UNCHANGED <<srvVars, ciVars, simVars>>

\* ------------------------------------------------------------------ backend
\* POST /generate_report: the job starts over, or the request fails
AnswerGenerate(s, ok) ==
    /\ s <= Len(reqs)
    /\ reqs[s].kind = "generate" /\ reqs[s].ph = "sent"
    /\ reqs' = [reqs EXCEPT ![s].ph = "resp", ![s].ok = ok]
    /\ IF ok
       THEN srvJob' = TRUE /\ srvStage' = 0 /\ srvComplete' = FALSE
       ELSE UNCHANGED srvVars
    /\ UNCHANGED <<ciVars, simVars>>
    /\ UNCHANGED <<localTopic, error, topic, pdfUrl, isGenerating, progress,
                   interval, run, pollEnded, rgEv>>

\* GET /progress/:topic -> {progress, is_complete}, or a failure
AnswerProgress(s, ok) ==
    /\ s <= Len(reqs)
    /\ reqs[s].kind = "progress" /\ reqs[s].ph = "sent"
    /\ reqs' = [reqs EXCEPT ![s].ph = "resp", ![s].ok = ok,
                            ![s].stage = IF ok THEN srvStage ELSE 0,
                            ![s].complete = ok /\ srvComplete]
    /\ UNCHANGED <<localTopic, error, topic, pdfUrl, isGenerating, progress,
                   interval, run, pollEnded, rgEv>>
    /\ UNCHANGED <<srvVars, ciVars, simVars>>

\* GET /report/:topic -> {pdf_base64}, possibly missing, or a failure
AnswerReport(s, ok, b) ==
    /\ s <= Len(reqs)
    /\ reqs[s].kind = "report" /\ reqs[s].ph = "sent"
    /\ reqs' = [reqs EXCEPT ![s].ph = "resp", ![s].ok = ok,
                            ![s].pdf = IF ok THEN b ELSE 0]
    /\ UNCHANGED <<localTopic, error, topic, pdfUrl, isGenerating, progress,
                   interval, run, pollEnded, rgEv>>
    /\ UNCHANGED <<srvVars, ciVars, simVars>>

\* the report job moves through its stages and then completes
ServerAdvance ==
    /\ srvJob /\ ~srvComplete
    /\ IF srvStage < NumStages
       THEN srvStage' = srvStage + 1 /\ UNCHANGED srvComplete
       ELSE srvComplete' = TRUE /\ UNCHANGED srvStage
    /\ UNCHANGED srvJob
    /\ UNCHANGED <<rgVars, ciVars, simVars>>

\* ------------------------------------------------------------ ChatInterface
NullSession == <<"null">>

\* uuidv4(): a fresh id for the n-th report
UuidV4(n) == <<"uuid">> \o [i \in 1..n |-> "#"]

\* topic || uuidv4()
NewSessionId(t, n) == IF t # <<>> THEN t ELSE UuidV4(n)

\* pdfUrl.startsWith("data:") ? pdfUrl.split(",")[1] : pdfUrl
Base64Data(url) ==
    IF Len(url) = 2 /\ url[1] = "data:application/pdf;base64," THEN url[2] ELSE url

Msg(type, content, sess) == [type |-> type, content |-> content, sess |-> sess]

InitPending == <<"Initializing new report chat...">>
InitOk(t) == <<"Chat initialized for report">> \o (IF t # <<>> THEN t ELSE <<"New Report">>)
InitFailed == <<"Failed to initialize chat. Please try again.">>
ReplyFailed == <<"Failed to get AI response. Please try again.">>
NoResponse == <<"No response from AI.">>

\* the topics a report can be generated for
Topics == TypedTopics \cup {ExampleTopics[i] : i \in 1..NumExamples}

\* what the user can type into the chat input
TypedInputs == {<<>>, <<" ">>, <<"q">>}

\* what /chat/message can carry in data.response ("" is falsy)
Responses == {<<>>, <<"r">>}

ChatSlots == 1..MaxChatReqs

ChatFetch(kind, sid, body, t, sess) ==
    [kind |-> kind, sid |-> sid, body |-> body, topic |-> t, sess |-> sess]

NotError(m) == m.type # "error"

\* the props change as ReportGenerator's handleSubmit changes them:
\* setTopic(localTopic); setPdfUrl(null).  The reset effect sees a falsy
\* pdfUrl and does nothing.
ParentSubmit(t) ==
    /\ SubmitGuard(t)
    /\ epoch < MaxReports
    /\ propTopic' = t
    /\ propPdfUrl' = NullUrl
    /\ ciEv' = "other"
    /\ UNCHANGED initDone
    /\ UNCHANGED <<messages, inputMessage, isLoading, sessionId, chatReqs, timers, epoch>>
    /\ UNCHANGED <<rgVars, srvVars, simVars>>

\* the props change as the poll's setPdfUrl(pdfUrl) changes them, and the
\* reset effect (deps [pdfUrl]) runs initializeChat for the new report
ParentPdf(b) ==
    /\ propPdfUrl # DataUrl(b)
    /\ epoch < MaxReports
    /\ Len(chatReqs) < MaxChatReqs
    /\ propPdfUrl' = DataUrl(b)
    /\ epoch' = epoch + 1
    /\ messages' = <<Msg("system", InitPending, epoch + 1)>>
    /\ inputMessage' = <<>>
    /\ isLoading' = FALSE
    /\ sessionId' = NewSessionId(propTopic, epoch + 1)
    /\ chatReqs' = Append(chatReqs,
                      ChatFetch("init", NewSessionId(propTopic, epoch + 1),
                                Base64Data(DataUrl(b)), propTopic, epoch + 1))
    /\ ciEv' = "other"
    /\ UNCHANGED initDone
    /\ UNCHANGED <<propTopic, timers>>
    /\ UNCHANGED <<rgVars, srvVars, simVars>>

\* the messages after the /chat/init response
AfterInit(ok, t, sess) ==
    IF ok THEN <<Msg("system", InitOk(t), sess)>>
    ELSE <<Msg("error", InitFailed, sess)>>

\* the /chat/init response reaches initializeChat
DeliverInit(i, ok) ==
    /\ i <= Len(chatReqs)
    /\ chatReqs[i].kind = "init"
    /\ ok \/ Len(timers) < MaxTimers
    /\ messages' = AfterInit(ok, chatReqs[i].topic, chatReqs[i].sess)
    /\ timers' = IF ok THEN timers ELSE Append(timers, "clear")
    /\ chatReqs' = Remove(chatReqs, i)
    /\ initDone' = IF ok THEN initDone \cup {chatReqs[i].sid} ELSE initDone
    /\ ciEv' = "other"
    /\ UNCHANGED <<propPdfUrl, propTopic, inputMessage, isLoading, sessionId, epoch>>
    /\ UNCHANGED <<rgVars, srvVars, simVars>>

\* onChange of the chat input (disabled while loading or without a session)
SetInputMessage(v) ==
    /\ ~isLoading /\ sessionId # NullSession
    /\ inputMessage' = v
    /\ ciEv' = "other"
    /\ UNCHANGED initDone
    /\ UNCHANGED <<propPdfUrl, propTopic, messages, isLoading, sessionId,
                   chatReqs, timers, epoch>>
    /\ UNCHANGED <<rgVars, srvVars, simVars>>

\* the guard of the chat's handleSubmit
ChatSubmitGuard(input, sid) == Trim(input) # <<>> /\ sid # NullSession

\* onSubmit of the chat form (input and button are disabled while loading)
ChatHandleSubmit ==
    /\ ~isLoading
    /\ ciEv' = "submit"
    /\ UNCHANGED initDone
    /\ IF ~ChatSubmitGuard(inputMessage, sessionId)
       THEN UNCHANGED <<messages, inputMessage, isLoading, chatReqs>>
       ELSE /\ Len(chatReqs) < MaxChatReqs
            /\ Len(messages) < MaxMsgs
            /\ inputMessage' = <<>>
            /\ isLoading' = TRUE
            /\ messages' = Append(messages, Msg("user", Trim(inputMessage), epoch))
            /\ chatReqs' = Append(chatReqs,
                              ChatFetch("message", sessionId, Trim(inputMessage),
                                        propTopic, epoch))
    /\ UNCHANGED <<propPdfUrl, propTopic, sessionId, timers, epoch>>
    /\ UNCHANGED <<rgVars, srvVars, simVars>>

\* mutant: the catch forgets to append the error message
AfterReplyDropsError(msgs, ok, resp, sess) ==
    IF ok
    THEN Append(msgs, Msg("assistant", IF resp # <<>> THEN resp ELSE <<"No response from AI.">>, sess))
    ELSE msgs

\* the messages after the /chat/message response
AfterReply(msgs, ok, resp, sess) ==
    IF ok
    THEN Append(msgs, Msg("assistant", IF resp # <<>> THEN resp ELSE NoResponse, sess))
    ELSE Append(msgs, Msg("error", ReplyFailed, sess))

\* the /chat/message response reaches handleSubmit
DeliverMessage(i, ok, resp) ==
    /\ i <= Len(chatReqs)
    /\ chatReqs[i].kind = "message"
    /\ ok \/ (resp = <<>> /\ Len(timers) < MaxTimers)
    /\ messages' = AfterReply(messages, ok, resp, chatReqs[i].sess)
    /\ timers' = IF ok THEN timers ELSE Append(timers, "filter")
    /\ isLoading' = FALSE
    /\ chatReqs' = Remove(chatReqs, i)
    /\ ciEv' = "other"
    /\ UNCHANGED initDone
    /\ UNCHANGED <<propPdfUrl, propTopic, inputMessage, sessionId, epoch>>
    /\ UNCHANGED <<rgVars, srvVars, simVars>>

\* the messages after an auto-dismiss timeout
AfterTimer(kind, msgs) ==
    IF kind = "clear" THEN <<>> ELSE SelectSeq(msgs, NotError)

\* the oldest 3-second timeout fires
TimerFire ==
    /\ timers # <<>>
    /\ messages' = AfterTimer(Head(timers), messages)
    /\ timers' = Tail(timers)
    /\ ciEv' = "other"
    /\ UNCHANGED initDone
    /\ UNCHANGED <<propPdfUrl, propTopic, inputMessage, isLoading, sessionId,
                   chatReqs, epoch>>
    /\ UNCHANGED <<rgVars, srvVars, simVars>>

\* ---------------------------------------------- simulated ChatInterface
\* a message of the simulated chat; id and timestamp are only rendered
SimMsg(text, isUser) == [text |-> text, isUser |-> isUser]

Greeting == <<"Hello! Ask me anything about this report.">>

SimulatedResponse == <<"I've analyzed your question about the report.">>

ExampleQuestions ==
    << <<"S", "u", "m">>, <<"W", "h", "a", "t">>, <<"E", "x", "p">>, <<"D", "a", "t", "a">> >>

\* the prop changes as the parent sets or drops the report text
SetReportContent(c) ==
    /\ reportContent # c
    /\ reportContent' = c
    /\ UNCHANGED <<simMessages, simInputMessage, simIsLoading, simTimeouts>>
    /\ UNCHANGED <<rgVars, srvVars, ciVars>>

\* onChange of the input (disabled without a report and while loading)
SimSetInputMessage(v) ==
    /\ reportContent /\ ~simIsLoading
    /\ simInputMessage' = v
    /\ UNCHANGED <<reportContent, simMessages, simIsLoading, simTimeouts>>
    /\ UNCHANGED <<rgVars, srvVars, ciVars>>

\* onClick of an example question (rendered only with a report)
ClickQuestion(i) ==
    /\ reportContent
    /\ simInputMessage' = ExampleQuestions[i]
    /\ UNCHANGED <<reportContent, simMessages, simIsLoading, simTimeouts>>
    /\ UNCHANGED <<rgVars, srvVars, ciVars>>

\* the guard of handleSendMessage
SendGuard(input, content) == Trim(input) # <<>> /\ content

\* onSubmit of the form (input and button are disabled while loading)
HandleSendMessage ==
    /\ ~simIsLoading
    /\ IF ~SendGuard(simInputMessage, reportContent)
       THEN UNCHANGED <<simMessages, simInputMessage, simIsLoading, simTimeouts>>
       ELSE /\ Len(simMessages) + 2 <= MaxSimMsgs
            /\ simMessages' = Append(simMessages, SimMsg(simInputMessage, TRUE))
            /\ simInputMessage' = <<>>
            /\ simIsLoading' = TRUE
            /\ simTimeouts' = simTimeouts + 1
    /\ UNCHANGED reportContent
    /\ UNCHANGED <<rgVars, srvVars, ciVars>>

\* mutant: the timeout callback appends the response twice
AfterTimeoutTwice(msgs) ==
    Append(Append(msgs, SimMsg(SimulatedResponse, FALSE)), SimMsg(SimulatedResponse, FALSE))

\* the messages after the timeout callback
AfterTimeout(msgs) == Append(msgs, SimMsg(SimulatedResponse, FALSE))

\* a 1.5-second timeout fires
SimTimeout ==
    /\ simTimeouts > 0
    /\ simTimeouts' = simTimeouts - 1
    /\ simMessages' = AfterTimeout(simMessages)
    /\ simIsLoading' = FALSE
    /\ UNCHANGED <<reportContent, simInputMessage>>
    /\ UNCHANGED <<rgVars, srvVars, ciVars>>

\* ------------------------------------------------------------ specifications
InitRG ==
    /\ localTopic = <<>>
    /\ error = ""
    /\ topic = <<>>
    /\ pdfUrl = NullUrl
    /\ isGenerating = FALSE
    /\ progress = ResetProgress
    /\ interval = NoInterval
    /\ reqs = <<>>
    /\ run = 0
    /\ pollEnded = FALSE
    /\ rgEv = "other"

InitSrv ==
    /\ srvJob = FALSE
    /\ srvStage = 0
    /\ srvComplete = FALSE

InitCI ==
    /\ propPdfUrl = NullUrl
    /\ propTopic = <<>>
    /\ messages = <<>>
    /\ inputMessage = <<>>
    /\ isLoading = FALSE
    /\ sessionId = NullSession
    /\ chatReqs = <<>>
    /\ timers = <<>>
    /\ epoch = 0
    /\ ciEv = "other"
    /\ initDone = {}

InitSim ==
    /\ reportContent = FALSE
    /\ simMessages = <<SimMsg(Greeting, FALSE)>>
    /\ simInputMessage = <<>>
    /\ simIsLoading = FALSE
    /\ simTimeouts = 0

Init == InitRG /\ InitSrv /\ InitCI /\ InitSim

NextRG ==
    \/ \E v \in TypedTopics : SetLocalTopic(v)
    \/ \E i \in 1..NumExamples : ClickExample(i)
    \/ HandleSubmit
    \/ Tick
    \/ \E s \in Slots : DeliverProgress(s)
    \/ \E s \in Slots : DeliverReport(s)
    \/ \E s \in Slots : DeliverGenerate(s)
    \/ \E s \in Slots, ok \in BOOLEAN : AnswerGenerate(s, ok)
    \/ \E s \in Slots, ok \in BOOLEAN : AnswerProgress(s, ok)
    \/ \E s \in Slots, ok \in BOOLEAN, b \in 0..NumPdfs : AnswerReport(s, ok, b)
    \/ ServerAdvance

SpecRG == Init /\ [][NextRG]_vars

NextCI ==
    \/ \E t \in Topics : ParentSubmit(t)
    \/ \E b \in 1..NumPdfs : ParentPdf(b)
    \/ \E i \in ChatSlots, ok \in BOOLEAN : DeliverInit(i, ok)
    \/ \E v \in TypedInputs : SetInputMessage(v)
    \/ ChatHandleSubmit
    \/ \E i \in ChatSlots, ok \in BOOLEAN, r \in Responses : DeliverMessage(i, ok, r)
    \/ TimerFire

SpecCI == Init /\ [][NextCI]_vars

\* every /chat/message request completes, and timeouts fire
FairSpecCI ==
    /\ SpecCI
    /\ WF_vars(TimerFire)
    /\ \A i \in ChatSlots :
        WF_vars(\E ok \in BOOLEAN, r \in Responses : DeliverMessage(i, ok, r))

\* the two forms side by side: the user events of both and the answer to
\* /generate_report, without the progress poll and the chat backend
NextGuards ==
    \/ \E v \in TypedTopics : SetLocalTopic(v)
    \/ \E i \in 1..NumExamples : ClickExample(i)
    \/ HandleSubmit
    \/ \E s \in Slots, ok \in BOOLEAN : AnswerGenerate(s, ok)
    \/ \E s \in Slots : DeliverGenerate(s)
    \/ \E t \in Topics : ParentSubmit(t)
    \/ \E b \in 1..NumPdfs : ParentPdf(b)
    \/ \E v \in TypedInputs : SetInputMessage(v)
    \/ ChatHandleSubmit

SpecGuards == Init /\ [][NextGuards]_vars

\* the poll is a timer and the backend answers: timers fire, every request
\* is answered and every response delivered, and the report job runs on
FairSpecRG ==
    /\ SpecRG
    /\ WF_vars(Tick)
    /\ WF_vars(ServerAdvance)
    /\ \A s \in Slots :
        /\ WF_vars(\E ok \in BOOLEAN : AnswerGenerate(s, ok))
        /\ WF_vars(\E ok \in BOOLEAN : AnswerProgress(s, ok))
        /\ WF_vars(\E ok \in BOOLEAN, b \in 0..NumPdfs : AnswerReport(s, ok, b))
        /\ WF_vars(DeliverGenerate(s))
        /\ WF_vars(DeliverProgress(s))
        /\ WF_vars(DeliverReport(s))

NextSim ==
    \/ \E c \in BOOLEAN : SetReportContent(c)
    \/ \E v \in TypedInputs : SimSetInputMessage(v)
    \/ \E i \in 1..NumQuestions : ClickQuestion(i)
    \/ HandleSendMessage
    \/ SimTimeout

SpecSim == Init /\ [][NextSim]_vars

\* the timeout of a sent message fires
FairSpecSim == SpecSim /\ WF_vars(SimTimeout)

\* ------------------------------------------------------- claims: vocabulary
Flags == {"topicAnalysis", "dataGathering", "draftingReport", "finalizing"}

SentCount(rq, kinds) ==
    Cardinality({i \in 1..Len(rq) : rq[i].ph = "sent" /\ rq[i].kind \in kinds})

\* the step sends a request of one of the kinds
Issues(kinds) == SentCount(reqs', kinds) > SentCount(reqs, kinds)

ReportReqsOf(r) == {i \in 1..Len(reqs) : reqs[i].kind = "report" /\ reqs[i].run = r}

\* ---------------------------------------------------------------- claims
\* C1: within one generation run no setProgress takes a progress flag that
\* is true back to false, whatever the order in which poll responses arrive.
C1_ProgressMonotone ==
    [][(isGenerating /\ run' = run) =>
          \A f \in Flags : progress[f] => progress'[f]]_vars

\* C3: a /progress request is issued only while isGenerating is true, and
\* after a tick has seen is_complete or has failed none is issued until the
\* next handleSubmit.
C3_PollCancelled ==
    [][Issues({"progress"}) => (isGenerating /\ ~pollEnded)]_vars

\* C4: once a failure has set the error string and cleared isGenerating, no
\* request is issued and pdfUrl is not set until the user submits again.
C4_NoActivityAfterError ==
    [][(error # "" /\ ~isGenerating /\ run' = run) =>
          (~Issues({"generate", "progress", "report"}) /\ pdfUrl' = pdfUrl)]_vars

\* C6: the poll loop terminates: under the fairness of FairSpecRG a run that
\* has started ends with isGenerating false, and the step that completes a
\* run sets pdfUrl to the data URL of the delivered pdf_base64 together with
\* clearing isGenerating.
C6_PollTerminates ==
    /\ isGenerating ~> ~isGenerating
    /\ [][\A s \in Slots :
            (DeliverReport(s) /\ reqs[s].ok /\ reqs[s].pdf # 0) =>
                /\ pdfUrl' = <<"data:application/pdf;base64,", reqs[s].pdf>>
                /\ ~isGenerating']_vars

C6_Witness ==
    /\ run >= 1 /\ ~isGenerating /\ error = ""
    /\ pdfUrl = <<"data:application/pdf;base64,", 1>>
    /\ progress = ProgressOf(NumStages)

\* C7: in one run at most one /report request is issued, also with several
\* tick callbacks in flight together.
C7_OneReportPerRun ==
    \A r \in 1..MaxRuns : Cardinality(ReportReqsOf(r)) <= 1

IsPrefix(a, b) == Len(a) <= Len(b) /\ SubSeq(b, 1, Len(a)) = a

IsConversation(m) == m.type \in {"user", "assistant"}

Conversation(msgs) == SelectSeq(msgs, IsConversation)

MessageReqs(rq) == {i \in 1..Len(rq) : rq[i].kind = "message"}

\* C2: within one report's chat messages are only appended: the user and
\* assistant messages already in the list stay, in their order, whatever
\* submits, replies, init completions and timers happen.
C2_AppendOnly ==
    [][epoch' = epoch =>
          IsPrefix(Conversation(messages), Conversation(messages'))]_vars

\* C5: the auto-dismiss timeout removes only messages of type error: every
\* user, assistant and system message in the list when it fires is still
\* there afterwards, for a failed /chat/message and for a failed /chat/init.
C5_DismissOnlyErrors ==
    [][Len(timers') < Len(timers) =>
          SelectSeq(messages', NotError) = SelectSeq(messages, NotError)]_vars

\* C8: after the reset for a new report the list holds no message of an
\* earlier report's conversation, and isLoading is true only while a
\* /chat/message request of the new session is in flight.
C8_ResetClean ==
    /\ \A i \in 1..Len(messages) : messages[i].sess = epoch
    /\ isLoading => \E j \in MessageReqs(chatReqs) : chatReqs[j].sess = epoch

C10_GuardsFrame ==
    /\ [][(rgEv' = "submit" /\ Trim(localTopic) = <<>>) =>
            UNCHANGED <<isGenerating, error, topic, pdfUrl, progress, reqs>>]_vars
    /\ [][(ciEv' = "submit" /\ (Trim(inputMessage) = <<>> \/ sessionId = <<"null">>)) =>
            UNCHANGED <<messages, inputMessage, isLoading, chatReqs>>]_vars

C10_Witness ==
    /\ rgEv = "submit" /\ localTopic = <<" ">> /\ ~isGenerating /\ reqs = <<>>
    /\ ciEv = "submit" /\ inputMessage = <<" ">> /\ sessionId # <<"null">>
    /\ ~isLoading

\* C12: a /chat/message request is sent only for a session id whose
\* /chat/init has completed successfully: none between the reset for a new
\* pdfUrl and the init response, and none after a failed init.
C12_MessageAfterInit ==
    \A i \in MessageReqs(chatReqs) : chatReqs[i].sid \in initDone

\* the /progress and /report requests in flight that the run r issued
PollReqsOf(r) ==
    {i \in 1..Len(reqs) : reqs[i].kind \in {"progress", "report"} /\ reqs[i].run = r}

\* C13: every /progress/:topic and /report/:topic request of the current
\* run names the topic that the run's POST /generate_report sent (the
\* topic handleSubmit passed to setTopic), whatever the user does during
\* the run.
C13_PollNamesRunTopic ==
    \A i \in PollReqsOf(run) : reqs[i].topic = topic

\* the step delivers a response to the tick callback in slot s
DeliversPoll(s) == DeliverProgress(s) \/ DeliverReport(s)

\* C14: while isGenerating is true pdfUrl is null; a pdfUrl is set only by
\* a callback of the most recently submitted run; and a tick callback of an
\* earlier run that is still in flight neither sets pdfUrl nor clears
\* isGenerating during a later run.
C14_StaleTickHarmless ==
    /\ [](isGenerating => pdfUrl = <<>>)
    /\ [][\A s \in Slots :
            (s <= Len(reqs) /\ DeliverReport(s) /\ reqs[s].ok /\ reqs[s].pdf # 0) =>
                reqs[s].run = run]_vars
    /\ [][\A s \in Slots :
            (s <= Len(reqs) /\ reqs[s].run < run /\ DeliversPoll(s)) =>
                UNCHANGED <<pdfUrl, isGenerating>>]_vars

\* messages of the simulated chat after the greeting
SimUserAt(i) == i \in 2..Len(simMessages) /\ simMessages[i].isUser

SimAiAt(i) == i \in 2..Len(simMessages) /\ ~simMessages[i].isUser

\* C11: in the simulated chat a handleSendMessage that passes its guard
\* appends the user message and sets isLoading; every user message is
\* directly followed by exactly one AI message, except the last one while
\* its timeout is pending; the list is only appended to; isLoading is true
\* exactly while the last message waits for its answer, and under the
\* fairness of FairSpecSim it returns to false.
C11_SimulatedReply ==
    /\ simIsLoading ~> ~simIsLoading
    /\ [](\A i \in 2..Len(simMessages) :
            /\ SimUserAt(i) => (SimAiAt(i + 1) \/ (i = Len(simMessages) /\ simIsLoading))
            /\ SimAiAt(i) => SimUserAt(i - 1))
    /\ [](simIsLoading <=> SimUserAt(Len(simMessages)))
    /\ [](simIsLoading <=> simTimeouts = 1)
    /\ [][IsPrefix(simMessages, simMessages')]_vars
    /\ [][(HandleSendMessage /\ Trim(simInputMessage) # <<>> /\ reportContent) =>
            /\ simMessages' = Append(simMessages, [text |-> simInputMessage, isUser |-> TRUE])
            /\ simIsLoading']_vars
    /\ [][SimTimeout =>
            /\ Len(simMessages') = Len(simMessages) + 1
            /\ SimAiAt(Len(simMessages))'
            /\ ~simIsLoading']_vars

C11_Witness ==
    /\ ~simIsLoading /\ simTimeouts = 0
    /\ Len(simMessages) = 5
    /\ simMessages[2].isUser /\ ~simMessages[3].isUser
    /\ simMessages[4].isUser /\ ~simMessages[5].isUser
    /\ simMessages[2].text # simMessages[4].text

====
